---- MODULE Spec2Model ----
(***************************************************************************)
(* A model of pslogtools: the capability probes, the LazyPSUtil inspector, *)
(* the worker that runs LazyPSUtil(pid).write_json(...) in a subprocess,   *)
(* process_details (the parent side) and the metlog_procinfo adapter.      *)
(***************************************************************************)
EXTENDS Integers, Sequences, FiniteSets, TLC

\* ------------------------------------------------------------------ bounds
\* Most keys a caller's config mapping holds.
MaxConfigKeys == 2
\* Most keyword arguments given to config_plugin.
MaxStaticKeys == 1
\* Most records the logging client's sender keeps in the model.
MaxEmissions == 1
\* Most LazyPSUtil objects constructed in one process.
MaxInspectors == 2

\* ------------------------------------------------------- names and values
\* Python's None; an optional value v is <<v>>.
None == <<>>

Categories == {"net", "io", "cpu", "mem", "threads"}

\* The order of the if-statements of write_json.
CatOrder == <<"net", "io", "cpu", "mem", "threads">>

\* A key that is no category, as in the tests' {'thread_io': True}.
BadKey == "thread_io"

Keys == Categories \cup {BadKey}

\* The method write_json calls for a category.
MethodOf(cat) ==
  CASE cat = "net" -> "get_connections"
    [] cat = "io" -> "get_io_counters"
    [] cat = "cpu" -> "get_cpu_info"
    [] cat = "mem" -> "get_memory_info"
    [] cat = "threads" -> "get_thread_cpuinfo"

\* The category methods the class statement of LazyPSUtil defines.
ClassMethods == {MethodOf(c) : c \in Categories}

\* os.getpid() of the process that calls process_details / metlog_procinfo.
ParentPid == 1
\* os.getpid() of the worker Popen starts.
WorkerPid == 2
\* Some other live process.
OtherPid == 3

PIDs == {ParentPid, WorkerPid, OtherPid}

Platforms == {"linux2", "darwin", "win32"}
Uids == {0, 501}

VARIABLES
  platform,     \* sys.platform
  uid,          \* os.getuid()
  has_io_attr,  \* hasattr(psutil.Process, 'get_io_counters')
  pc,           \* position of the calling process
  caller,       \* which entry point the running / last call came through
  config,       \* the caller's config mapping object
  pidArg,       \* pid as process_details formats it into the command
  req,          \* net, io, cpu, mem, threads as process_details receives them
  worker,       \* the worker process
  result,       \* what process_details returned
  outcome,      \* how the last call ended
  emissions,    \* the calls self.metlog received
  spawned,      \* whether the running / last call started a worker
  static,       \* the categories the adapter was built with as forced off
  classMethods, \* category methods of class LazyPSUtil in the inspecting process
  inspectors,   \* the LazyPSUtil objects of the inspecting process
  lastCall      \* the last operation on an inspector and how it ended

envVars == <<platform, uid, has_io_attr>>
callVars == <<pc, caller, config, pidArg, req, worker, result, outcome,
              emissions, spawned>>
inspVars == <<classMethods, inspectors, lastCall>>
vars == <<platform, uid, has_io_attr, pc, caller, config, pidArg, req, worker,
          result, outcome, emissions, spawned, static, classMethods,
          inspectors, lastCall>>

\* ------------------------------------------------------ capability prober
os_name == IF platform = "win32" THEN "nt" ELSE "posix"

check_osx_perm == platform # "darwin" \/ uid = 0

supports_iocounters ==
  IF ~has_io_attr \/ os_name # "posix" THEN FALSE ELSE TRUE

\* -------------------------------------------------- the inspected process
\* What psutil reports about the target: its sockets, counters and threads.
TargetConnections ==
  << [type |-> "SOCK_STREAM", status |-> "LISTEN",
      local_address |-> <<"127.0.0.1", 50007>>, remote_address |-> <<>>],
     [type |-> "SOCK_DGRAM", status |-> "",
      local_address |-> <<"127.0.0.1", 53>>,
      remote_address |-> <<"10.0.0.1", 53>>],
     [type |-> "SOCK_SEQPACKET", status |-> "",
      local_address |-> <<"127.0.0.1", 7>>, remote_address |-> <<>>] >>

TargetIO == [read_bytes |-> 10, write_bytes |-> 20, read_count |-> 3,
             write_count |-> 4]
TargetCpuTimes == [user |-> 5, system |-> 6]
TargetMem == [rss |-> 100, vms |-> 200, percent |-> 7]
TargetCpuPercent == 9
TargetThreads == << [id |-> 11, user_time |-> 1, system_time |-> 2],
                    [id |-> 12, user_time |-> 3, system_time |-> 4] >>

\* '%s:%s' % (ip, port)
FormatAddr(addr) == addr[1] \o ":" \o ToString(addr[2])

\* The gate __init__ and the methods test for a category: none for net.
CapabilityGate(cat) ==
  CASE cat = "net" -> TRUE
    [] cat = "io" -> supports_iocounters
    [] cat \in {"cpu", "mem", "threads"} -> check_osx_perm

\* ------------------------------------------------------------- LazyPSUtil
\* A LazyPSUtil object: self.pid and self._process.
NewInspector(pid) == [pid |-> pid, _process |-> None]

\* The del statements of __init__, in order: del of an attribute the class no
\* longer has raises AttributeError, and the statements after it do not run.
RECURSIVE DelAll(_, _)
DelAll(methods, names) ==
  IF names = <<>> THEN [ok |-> TRUE, methods |-> methods]
  ELSE IF Head(names) \notin methods THEN [ok |-> FALSE, methods |-> methods]
  ELSE DelAll(methods \ {Head(names)}, Tail(names))

\* __init__, as its effect on the class's methods; ok is FALSE when it raises.
LazyPSUtil_init(methods) ==
  DelAll(methods,
         (IF ~supports_iocounters THEN <<"get_io_counters">> ELSE <<>>)
         \o (IF ~check_osx_perm
              THEN <<"get_cpu_info", "get_memory_info", "get_thread_cpuinfo">>
              ELSE <<>>))

\* The process property, for an inspector running in process mypid.
\* exists: whether psutil.Process(pid) finds the process (the process that
\* asks always exists).
process_get(insp, mypid, exists) ==
  IF insp._process = None
    THEN IF ~exists /\ mypid # insp.pid
           THEN [status |-> "NoSuchProcess", insp |-> insp]
           ELSE IF mypid = insp.pid
             THEN [status |-> "InvalidPIDError",
                   insp |-> [insp EXCEPT !._process = <<insp.pid>>]]
             ELSE [status |-> "ok", insp |-> [insp EXCEPT !._process = <<insp.pid>>]]
    ELSE [status |-> "ok", insp |-> insp]

ConnRecord(conn) ==
  [type |-> IF conn.type = "SOCK_STREAM" THEN "TCP"
            ELSE IF conn.type = "SOCK_DGRAM" THEN "UDP" ELSE "UNIX",
   status |-> conn.status,
   local |-> FormatAddr(conn.local_address),
   remote |-> IF conn.remote_address = <<>> THEN "*:*"
              ELSE FormatAddr(conn.remote_address)]

get_connections == [i \in DOMAIN TargetConnections |-> ConnRecord(TargetConnections[i])]

get_io_counters ==
  [read_bytes |-> TargetIO.read_bytes, write_bytes |-> TargetIO.write_bytes,
   read_count |-> TargetIO.read_count, write_count |-> TargetIO.write_count]

get_memory_info ==
  [pcnt |-> TargetMem.percent, rss |-> TargetMem.rss, vms |-> TargetCpuTimes.system]

get_cpu_info ==
  [cpu_pcnt |-> TargetCpuPercent, cpu_user |-> TargetCpuTimes.user,
   cpu_sys |-> TargetCpuTimes.system]

get_thread_cpuinfo ==
  [id \in {TargetThreads[i].id : i \in DOMAIN TargetThreads} |->
     LET t == CHOOSE t \in {TargetThreads[i] : i \in DOMAIN TargetThreads} : t.id = id
     IN [sys |-> t.system_time, user |-> t.user_time]]

\* A call of the method of category cat on inspector insp in process mypid,
\* with class methods `methods`. psutil_ok: whether the psutil calls succeed.
\* The value is wrapped in a 1-tuple; <<>> is no value.
CallCategory(cat, methods, insp, mypid, psutil_ok) ==
  LET p == process_get(insp, mypid, psutil_ok)
      fail(s, i) == [status |-> s, insp |-> i, value |-> <<>>]
  IN IF MethodOf(cat) \notin methods THEN fail("AttributeError", insp)
     ELSE IF cat = "io" /\ ~supports_iocounters THEN fail("SystemExit", insp)
     ELSE IF cat \in {"cpu", "mem", "threads"} /\ ~check_osx_perm
       THEN fail("OSXPermissionFailure", insp)
     ELSE IF p.status # "ok" THEN fail(p.status, p.insp)
     ELSE IF ~psutil_ok THEN fail("NoSuchProcess", p.insp)
     ELSE [status |-> "ok", insp |-> p.insp,
           value |-> << CASE cat = "net" -> get_connections
                          [] cat = "io" -> get_io_counters
                          [] cat = "cpu" -> get_cpu_info
                          [] cat = "mem" -> get_memory_info
                          [] cat = "threads" -> get_thread_cpuinfo >>]

\* ------------------------------------------------------------------- JSON
ThreadKey(id) == ToString(id)

\* json.dumps(data): the document written; the integer keys of the threads
\* mapping become strings.
json_dumps(data) ==
  [c \in DOMAIN data |->
     IF c = "threads"
       THEN [k \in {ThreadKey(id) : id \in DOMAIN data[c]} |->
               data[c][CHOOSE id \in DOMAIN data[c] : ThreadKey(id) = k]]
       ELSE data[c]]

\* json.loads(stdout or '{}'): empty output read as an empty result.
json_loads_lenient(stdout) ==
  IF Len(stdout) = 1 THEN [ok |-> TRUE, value |-> stdout[1]]
  ELSE [ok |-> TRUE, value |-> <<>>]

\* json.loads(stdout), stdout being the documents written to it: the empty
\* string is no JSON document and raises ValueError.
json_loads(stdout) ==
  IF Len(stdout) = 1 THEN [ok |-> TRUE, value |-> stdout[1]]
  ELSE [ok |-> FALSE, value |-> <<>>]

\* ------------------------------------------------------------- the worker
NoWorker == [pc |-> "none", methods |-> {}, insp |-> None, data |-> <<>>,
             stdout |-> <<>>, exit |-> None, error |-> None]

\* The process Popen starts: python -c 'from pslogtools import LazyPSUtil; ...'
NewWorker == [NoWorker EXCEPT !.pc = "construct", !.methods = ClassMethods]

\* The position after the if-statement of category cat in write_json.
NextPc(cat) ==
  LET i == CHOOSE i \in DOMAIN CatOrder : CatOrder[i] = cat
  IN IF i = Len(CatOrder) THEN "write" ELSE CatOrder[i + 1]

\* The worker dying with the write in a finally block: what was gathered so
\* far is written before the exit.
WorkerDies_flush(w, status) ==
  [w EXCEPT !.pc = "exited", !.exit = <<1>>, !.error = <<status>>,
            !.stdout = Append(w.stdout, json_dumps(w.data))]

\* An uncaught exception or sys.exit(message): nothing is written to stdout
\* and the exit status is 1.
WorkerDies(w, status) ==
  [w EXCEPT !.pc = "exited", !.exit = <<1>>, !.error = <<status>>]

\* LazyPSUtil(pid) in the worker.
worker_construct(w, pid) ==
  LET r == LazyPSUtil_init(w.methods)
  IN IF r.ok
       THEN [w EXCEPT !.pc = CatOrder[1], !.methods = r.methods,
                      !.insp = <<NewInspector(pid)>>]
       ELSE WorkerDies([w EXCEPT !.methods = r.methods], "AttributeError")

\* write_json with hasattr guards: a category whose method is gone is left out.
write_json_step_failsoft(w, flags, psutil_ok) ==
  LET cat == w.pc
      r == CallCategory(cat, w.methods, w.insp[1], WorkerPid, psutil_ok)
  IN IF ~flags[cat] \/ MethodOf(cat) \notin w.methods
       THEN [w EXCEPT !.pc = NextPc(cat)]
     ELSE IF r.status = "ok"
       THEN [w EXCEPT !.pc = NextPc(cat), !.insp = <<r.insp>>,
                      !.data = [c \in DOMAIN w.data \cup {cat} |->
                                  IF c = cat THEN r.value[1] ELSE w.data[c]]]
       ELSE WorkerDies([w EXCEPT !.insp = <<r.insp>>], r.status)

\* write_json gathering net whatever its flag says.
write_json_step_always_net(w, flags, psutil_ok) ==
  LET cat == w.pc
      r == CallCategory(cat, w.methods, w.insp[1], WorkerPid, psutil_ok)
  IN IF ~flags[cat] /\ cat # "net" THEN [w EXCEPT !.pc = NextPc(cat)]
     ELSE IF r.status = "ok"
       THEN [w EXCEPT !.pc = NextPc(cat), !.insp = <<r.insp>>,
                      !.data = [c \in DOMAIN w.data \cup {cat} |->
                                  IF c = cat THEN r.value[1] ELSE w.data[c]]]
       ELSE WorkerDies([w EXCEPT !.insp = <<r.insp>>], r.status)

\* One if-statement of write_json: the one of category w.pc.
write_json_step(w, flags, psutil_ok) ==
  LET cat == w.pc
      r == CallCategory(cat, w.methods, w.insp[1], WorkerPid, psutil_ok)
  IN IF ~flags[cat] THEN [w EXCEPT !.pc = NextPc(cat)]
     ELSE IF r.status = "ok"
       THEN [w EXCEPT !.pc = NextPc(cat), !.insp = <<r.insp>>,
                      !.data = [c \in DOMAIN w.data \cup {cat} |->
                                  IF c = cat THEN r.value[1] ELSE w.data[c]]]
       ELSE WorkerDies([w EXCEPT !.insp = <<r.insp>>], r.status)

\* sys.stdout.write(json.dumps(data)); sys.stdout.flush(); the worker ends.
write_json_end(w) ==
  [w EXCEPT !.pc = "exited", !.exit = <<0>>,
            !.stdout = Append(w.stdout, json_dumps(w.data))]

\* -------------------------------------------------------- metlog_procinfo
\* The config mappings a caller passes: at most MaxConfigKeys keys.
Configs ==
  UNION {[K -> BOOLEAN] : K \in {K \in SUBSET Keys : Cardinality(K) <= MaxConfigKeys}}

\* config.pop(key, default)
config_pop(cfg, key, default) ==
  [value |-> IF key \in DOMAIN cfg THEN cfg[key] ELSE default,
   config |-> [k \in DOMAIN cfg \ {key} |-> cfg[k]]]

\* The five pops of metlog_procinfo: the flags and what is left of config.
metlog_pops(cfg) ==
  LET n == config_pop(cfg, "net", FALSE)
      i == config_pop(n.config, "io", FALSE)
      c == config_pop(i.config, "cpu", FALSE)
      m == config_pop(c.config, "mem", FALSE)
      t == config_pop(m.config, "threads", FALSE)
  IN [flags |-> [net |-> n.value, io |-> i.value, cpu |-> c.value,
                 mem |-> m.value, threads |-> t.value],
      config |-> t.config]

\* The leftover check left out.
config_left_never(cfg) == FALSE

\* `if config:` - a mapping is true when it is not empty.
config_left(cfg) == DOMAIN cfg # {}

\* The emission skipped when nothing was collected.
metlog_emit_nonempty(sent, fields) ==
  IF DOMAIN fields = {} THEN sent
  ELSE Append(sent, [name |-> "procinfo", fields |-> fields])

\* self.metlog('procinfo', fields=fields)
metlog_emit(sent, fields) == Append(sent, [name |-> "procinfo", fields |-> fields])

\* `if pid is None: pid = os.getpid()`
resolve_pid(p) == IF p = None THEN ParentPid ELSE p[1]

OptPids == {None} \cup {<<q>> : q \in PIDs}
FlagSets == [Categories -> BOOLEAN]
NoFlags == [c \in Categories |-> FALSE]
Requested(flags) == {c \in Categories : flags[c]}

\* ---------------------------------------------------------------- actions
\* process_details up to Popen: the command is formatted and the worker
\* started, or Popen raises OSError.
Launch(who, p, flags) ==
  /\ caller' = who
  /\ pidArg' = resolve_pid(p)
  /\ req' = flags
  /\ result' = None
  /\ \E started \in BOOLEAN :
       IF started
         THEN /\ worker' = NewWorker
              /\ spawned' = TRUE
              /\ pc' = "wait"
              /\ outcome' = "running"
         ELSE /\ worker' = NoWorker
              /\ spawned' = FALSE
              /\ pc' = "idle"
              /\ outcome' = "OSError"

\* The caller builds the mapping it will pass (or takes the one it has).
MakeConfig ==
  /\ pc = "idle"
  /\ Len(emissions) < MaxEmissions
  /\ \E cfg \in Configs : config' = cfg
  /\ pc' = "ready"
  /\ caller' = "none"
  /\ pidArg' = ParentPid
  /\ req' = NoFlags
  /\ worker' = NoWorker
  /\ result' = None
  /\ outcome' = "none"
  /\ spawned' = FALSE
  /\ UNCHANGED <<envVars, emissions, static, inspVars>>

\* metlog_procinfo(self, pid, config) up to the start of the worker.
metlog_procinfo ==
  /\ pc = "ready"
  /\ \E p \in OptPids :
       LET a == metlog_pops(config)
       IN /\ config' = a.config
          /\ IF config_left(a.config)
               THEN /\ pc' = "idle"
                    /\ caller' = "metlog_procinfo"
                    /\ outcome' = "SyntaxError"
                    /\ pidArg' = resolve_pid(p)
                    /\ req' = a.flags
                    /\ UNCHANGED <<worker, result, spawned>>
               ELSE Launch("metlog_procinfo", p, a.flags)
  /\ UNCHANGED <<envVars, emissions, static, inspVars>>

\* process_details(pid, net, io, cpu, mem, threads) called directly.
process_details ==
  /\ pc = "idle"
  /\ \E p \in OptPids, flags \in FlagSets : Launch("process_details", p, flags)
  /\ UNCHANGED <<envVars, config, emissions, static, inspVars>>

WorkerConstruct ==
  /\ pc = "wait"
  /\ worker.pc = "construct"
  /\ worker' = worker_construct(worker, pidArg)
  /\ UNCHANGED <<envVars, pc, caller, config, pidArg, req, result, outcome,
                 emissions, spawned, static, inspVars>>

WorkerGather ==
  /\ pc = "wait"
  /\ worker.pc \in Categories
  /\ \E psutil_ok \in BOOLEAN : worker' = write_json_step(worker, req, psutil_ok)
  /\ UNCHANGED <<envVars, pc, caller, config, pidArg, req, result, outcome,
                 emissions, spawned, static, inspVars>>

WorkerWrite ==
  /\ pc = "wait"
  /\ worker.pc = "write"
  /\ worker' = write_json_end(worker)
  /\ UNCHANGED <<envVars, pc, caller, config, pidArg, req, result, outcome,
                 emissions, spawned, static, inspVars>>

\* proc.communicate() returns when the worker has ended; json.loads(stdout);
\* metlog_procinfo then hands the fields to self.metlog.
Return ==
  /\ pc = "wait"
  /\ worker.pc = "exited"
  /\ LET r == json_loads(worker.stdout)
     IN IF r.ok
          THEN /\ result' = <<r.value>>
               /\ outcome' = "ok"
               /\ emissions' = IF caller = "process_details" THEN emissions
                               ELSE metlog_emit(emissions, r.value)
          ELSE /\ result' = None
               /\ outcome' = "ValueError"
               /\ emissions' = emissions
  /\ pc' = "idle"
  /\ UNCHANGED <<envVars, caller, config, pidArg, req, worker, spawned, static,
                 inspVars>>

\* --------------------------------------------------------- specifications
EnvInit ==
  /\ platform \in Platforms
  /\ uid \in Uids
  /\ has_io_attr \in BOOLEAN

Init ==
  /\ EnvInit
  /\ pc = "idle"
  /\ caller = "none"
  /\ config = <<>>
  /\ pidArg = ParentPid
  /\ req = NoFlags
  /\ worker = NoWorker
  /\ result = None
  /\ outcome = "none"
  /\ emissions = <<>>
  /\ spawned = FALSE
  /\ static = None
  /\ classMethods = ClassMethods
  /\ inspectors = <<>>
  /\ lastCall = None

\* Calls through the adapter.
Next ==
  \/ MakeConfig
  \/ metlog_procinfo
  \/ WorkerConstruct
  \/ WorkerGather
  \/ WorkerWrite
  \/ Return

Spec == Init /\ [][Next]_vars

\* Direct calls of process_details.
NextCollect ==
  \/ process_details
  \/ WorkerConstruct
  \/ WorkerGather
  \/ WorkerWrite
  \/ Return

SpecCollect == Init /\ [][NextCollect]_vars

\* ------------------------------------------------- the configured adapter
\* config_plugin(**kw) builds the adapter with its static switches; the
\* adapter it returns is called with per-call flags.
StaticConfigs ==
  UNION {[K -> BOOLEAN] : K \in {K \in SUBSET Keys : Cardinality(K) <= MaxStaticKeys}}

\* The categories a static configuration forces off.
forced_off(kw) == {c \in DOMAIN kw : ~kw[c]}

\* The flags the adapter collects with: a per-call request for a category
\* that is forced off is ignored.
plugin_flags(off, flags) == [c \in Categories |-> flags[c] /\ c \notin off]

CallFlagSets == {f \in FlagSets : Cardinality(Requested(f)) <= MaxConfigKeys}

\* config_plugin(**kw): an unrecognized key is a SyntaxError.
config_plugin ==
  /\ pc = "idle"
  /\ static = None
  /\ \E kw \in StaticConfigs :
       IF DOMAIN kw \subseteq Categories
         THEN /\ static' = <<forced_off(kw)>>
              /\ outcome' = "configured"
         ELSE /\ static' = None
              /\ outcome' = "SyntaxError"
  /\ caller' = "config_plugin"
  /\ UNCHANGED <<envVars, pc, config, pidArg, req, worker, result, emissions,
                 spawned, inspVars>>

\* client.procinfo(**flags) on a client the configured adapter was added to.
plugin_procinfo ==
  /\ pc = "idle"
  /\ static # None
  /\ Len(emissions) < MaxEmissions
  /\ \E flags \in CallFlagSets :
       LET eff == plugin_flags(static[1], flags)
       IN /\ config' = [c \in Requested(flags) |-> TRUE]
          /\ IF Requested(eff) = {}
               THEN /\ caller' = "plugin"
                    /\ outcome' = "skipped"
                    /\ req' = eff
                    /\ result' = None
                    /\ worker' = NoWorker
                    /\ spawned' = FALSE
                    /\ UNCHANGED <<pc, pidArg>>
               ELSE Launch("plugin", None, eff)
  /\ UNCHANGED <<envVars, emissions, static, inspVars>>

NextPlugin ==
  \/ config_plugin
  \/ plugin_procinfo
  \/ WorkerConstruct
  \/ WorkerGather
  \/ WorkerWrite
  \/ Return

SpecPlugin == Init /\ [][NextPlugin]_vars

\* ------------------------------------------- inspectors used in-process
\* LazyPSUtil(pid) in the process ParentPid.
Construct ==
  /\ Len(inspectors) < MaxInspectors
  /\ \E pid \in PIDs :
       LET r == LazyPSUtil_init(classMethods)
       IN /\ classMethods' = r.methods
          /\ inspectors' = IF r.ok THEN Append(inspectors, NewInspector(pid))
                           ELSE inspectors
          /\ lastCall' = <<[op |-> "__init__", pid |-> pid,
                            status |-> IF r.ok THEN "ok" ELSE "AttributeError"]>>
  /\ UNCHANGED <<envVars, callVars, static>>

\* insp.process
AccessProcess ==
  /\ \E i \in DOMAIN inspectors, exists \in BOOLEAN :
       LET r == process_get(inspectors[i], ParentPid, exists)
       IN /\ inspectors' = [inspectors EXCEPT ![i] = r.insp]
          /\ lastCall' = <<[op |-> "process", pid |-> inspectors[i].pid,
                            status |-> r.status]>>
  /\ UNCHANGED <<envVars, callVars, static, classMethods>>

\* insp.get_connections(), insp.get_io_counters(), ...
CallMethod ==
  /\ \E i \in DOMAIN inspectors, cat \in Categories, psutil_ok \in BOOLEAN :
       LET r == CallCategory(cat, classMethods, inspectors[i], ParentPid, psutil_ok)
       IN /\ inspectors' = [inspectors EXCEPT ![i] = r.insp]
          /\ lastCall' = <<[op |-> MethodOf(cat), pid |-> inspectors[i].pid,
                            status |-> r.status]>>
  /\ UNCHANGED <<envVars, callVars, static, classMethods>>

NextInspect ==
  \/ Construct
  \/ AccessProcess
  \/ CallMethod

SpecInspect == Init /\ [][NextInspect]_vars

\* ----------------------------------------------------------------- claims
\* What the worker gathers for a category, as the parent reads it back.
Payload(cat) ==
  json_dumps([c \in {cat} |->
     CASE cat = "net" -> get_connections
       [] cat = "io" -> get_io_counters
       [] cat = "cpu" -> get_cpu_info
       [] cat = "mem" -> get_memory_info
       [] cat = "threads" -> get_thread_cpuinfo])[cat]

HasBadKey(cfg) == ~(DOMAIN cfg \subseteq Categories)

\* C1: a call of metlog_procinfo whose config holds a key outside the five
\* categories ends at once with SyntaxError: no worker is started and nothing
\* is emitted, whatever recognized keys and values come with the bad key.
C1_BadKeyFailsBeforeSpawn ==
  [][(pc = "ready" /\ HasBadKey(config))
       => /\ pc' = "idle"
          /\ outcome' = "SyntaxError"
          /\ worker' = NoWorker
          /\ ~spawned'
          /\ emissions' = emissions]_vars

C1_Witness ==
  /\ pc = "idle"
  /\ caller = "metlog_procinfo"
  /\ outcome = "SyntaxError"
  /\ req["net"] /\ ~req["io"]
  /\ worker = NoWorker
  /\ emissions = <<>>

\* C2: a step of an adapter call adds an emission exactly when it is the
\* return of a successful collection, and then it adds one record named
\* procinfo whose fields are the result process_details returned; every
\* other step (a failed validation, launch or collection) adds none.
C2_OneEmissionPerSuccess ==
  [][IF pc = "wait" /\ pc' = "idle" /\ outcome' = "ok"
       THEN emissions' = Append(emissions, [name |-> "procinfo", fields |-> result'[1]])
       ELSE emissions' = emissions]_vars

C2_Witness ==
  /\ pc = "idle"
  /\ caller = "metlog_procinfo"
  /\ outcome = "ok"
  /\ Requested(req) = {"net", "cpu"}
  /\ Len(emissions) = 1
  /\ emissions[1] = [name |-> "procinfo", fields |-> result[1]]
  /\ DOMAIN result[1] = {"net", "cpu"}

\* C3: with a category forced off when the adapter was built, a call that
\* requests only forced-off categories starts no worker and emits nothing,
\* and no emitted record ever holds a forced-off category.
C3_StaticDisablement ==
  /\ [](static # None =>
          \A i \in DOMAIN emissions : DOMAIN emissions[i].fields \cap static[1] = {})
  /\ [][(pc = "idle" /\ caller' = "plugin" /\ DOMAIN config' \subseteq static[1])
          => /\ emissions' = emissions
             /\ pc' = "idle"
             /\ worker' = NoWorker
             /\ outcome' = "skipped"]_vars

C3_Witness ==
  /\ static # None
  /\ "net" \in static[1]
  /\ caller = "plugin"
  /\ DOMAIN config = {"net", "io"}
  /\ outcome = "ok"
  /\ Len(emissions) = 1
  /\ DOMAIN emissions[1].fields = {"io"}

\* A direct call of process_details whose worker ran and was read.
CollectDone ==
  /\ pc = "idle"
  /\ caller = "process_details"
  /\ spawned

\* The failures of reading the target itself (it is gone, or it is the worker).
TargetErrors == {<<"NoSuchProcess">>, <<"InvalidPIDError">>}

\* C4 as stated: with io not requested or supported, collect returns a
\* result whose keys are the requested categories whose gate passes; a
\* requested category whose gate fails is left out and the rest is returned.
C4_Original ==
  (CollectDone /\ (req["io"] => supports_iocounters) /\ worker.error \notin TargetErrors)
    => /\ outcome = "ok"
       /\ DOMAIN result[1] = {c \in Requested(req) : CapabilityGate(c)}

\* C4 amended: collect returns a result only when the gate of every requested
\* category passes, and its keys are then exactly the requested categories;
\* when the gate of a requested category fails, collect fails with no result;
\* when all gates pass, only a failed read of the target makes it fail.
C4_Amended ==
  CollectDone
    => /\ outcome = "ok"
            => /\ DOMAIN result[1] = Requested(req)
               /\ \A c \in Requested(req) : CapabilityGate(c)
       /\ (\E c \in Requested(req) : ~CapabilityGate(c))
            => (outcome = "ValueError" /\ result = None)
       /\ ((\A c \in Requested(req) : CapabilityGate(c)) /\ outcome # "ok")
            => worker.error \in TargetErrors

C4_Witness ==
  /\ CollectDone
  /\ Requested(req) = {"net", "cpu"}
  /\ ~check_osx_perm
  /\ DOMAIN worker.data = {"net"}
  /\ outcome = "ValueError"
  /\ result = None

\* C5: the worker writes its output only at the end, after every requested
\* category was gathered; a worker that failed leaves the caller with an
\* error and no result; a result holds, for each of its keys, the whole
\* payload of that category.
C5_AllOrNothing ==
  /\ worker.stdout # <<>>
       => /\ worker.pc = "exited"
          /\ worker.exit = <<0>>
          /\ worker.error = None
          /\ DOMAIN worker.data = Requested(req)
  /\ (pc = "idle" /\ spawned /\ worker.error # None)
       => (outcome = "ValueError" /\ result = None)
  /\ result # None
       => /\ outcome = "ok"
          /\ DOMAIN result[1] = Requested(req)
          /\ \A c \in DOMAIN result[1] : result[1][c] = Payload(c)

C5_Witness ==
  /\ CollectDone
  /\ Requested(req) = {"net", "threads"}
  /\ DOMAIN worker.data = {"net"}
  /\ worker.error = <<"NoSuchProcess">>
  /\ worker.exit = <<1>>
  /\ outcome = "ValueError"
  /\ result = None

\* C6: when io is requested and supports_iocounters() is false, process_details
\* never returns a result, whatever else is requested.
C6_IoUnsupportedFails ==
  (caller = "process_details" /\ req["io"] /\ ~supports_iocounters)
    => /\ result = None
       /\ outcome # "ok"
       /\ (pc = "idle" /\ spawned) => outcome = "ValueError"

C6_Witness ==
  /\ CollectDone
  /\ Requested(req) = {"net", "io", "mem"}
  /\ ~supports_iocounters
  /\ check_osx_perm
  /\ worker.error = <<"AttributeError">>
  /\ outcome = "ValueError"

\* C7 as stated: cpu requested (as the first category) without the permission
\* check passing ends in OSXPermissionFailure for the requester.
C7_PermissionKindError ==
  (CollectDone /\ req["cpu"] /\ ~req["net"] /\ ~req["io"] /\ ~check_osx_perm)
    => outcome = "OSXPermissionFailure"

\* C8 as stated: every access to `process` of an inspector whose pid is the
\* pid of the process it runs in ends in InvalidPIDError.
C8_SelfInspectionRejected ==
  (lastCall # None /\ lastCall[1].op = "process" /\ lastCall[1].pid = ParentPid)
    => lastCall[1].status = "InvalidPIDError"

\* C9 as stated: a call that ends in SyntaxError leaves the caller's config
\* mapping as it was.
C9_ConfigUntouchedOnError ==
  [][(pc = "ready" /\ outcome' = "SyntaxError") => config' = config]_vars

\* C10 as stated: every construction of a LazyPSUtil succeeds, and the
\* methods left on the class are those whose gate passes.
C10_ConstructionRepeatable ==
  /\ (lastCall # None /\ lastCall[1].op = "__init__") => lastCall[1].status = "ok"
  /\ inspectors # <<>> =>
       classMethods = {MethodOf(c) : c \in {c \in Categories : CapabilityGate(c)}}
====
